---- MODULE Spec2Model ----
(***************************************************************************)
(* A model of liblightbase's Base (lbbase/struct.py) and of its generated  *)
(* document types (lbdoc/metaclass.py): the document validator with its    *)
(* per-document memory areas, the generated constructors and accessors,    *)
(* the validating list of a multivalued group, and the two converters.     *)
(***************************************************************************)
EXTENDS Integers, Sequences, FiniteSets, TLC

\* ------------------------------------------------------------------ bounds

\* Document ids are 1..MaxId.
MaxId == 2

\* Longest list a caller builds for a multivalued structure.
MaxLen == 2

\* Most keyword arguments handed to a generated constructor.
MaxArgs == 3

\* ------------------------------------------------------------------ values
\* Python values are tagged records; the tag k is compared first, so values
\* of different kinds are never compared field by field.

\* a scalar (int, str, ...)
S(x) == [k |-> "s", v |-> x]

\* None
None == [k |-> "n", v |-> 0]

\* a plain dict: f maps keys to values
D(f) == [k |-> "d", v |-> f]

\* a plain list
L(s) == [k |-> "l", v |-> s]

\* an instance of the generated type named t with the slots it holds
I(t, slots) == [k |-> "i", t |-> t, v |-> slots]

\* a FieldMetaClass instance holding __value__
W(x) == [k |-> "w", v |-> x]

\* a reference to a list object of the heap ("caller" or "multi")
R(l) == [k |-> "r", v |-> l]

\* the empty dict / empty slot table
EmptyMap == [x \in {} |-> None]

Put(m, key, val) == [x \in (DOMAIN m) \cup {key} |-> IF x = key THEN val ELSE m[x]]

Range(s) == {s[i] : i \in DOMAIN s}

\* ------------------------------------------------------------- structures

Field(n, req, multi, rel, file) ==
    [kind |-> "field", name |-> n, required |-> req, multivalued |-> multi,
     is_rel |-> rel, is_file |-> file, content |-> <<>>]

Group(n, req, multi, c) ==
    [kind |-> "group", name |-> n, required |-> req, multivalued |-> multi,
     is_rel |-> FALSE, is_file |-> FALSE, content |-> c]

\* struct.name for a Field, struct.metadata.name for a Group
StructName(s) == s.name

\* The datatype capability: validate(value) returns the normalized value or
\* raises. Scalars 1 and 2 are of the field's datatype and are their own
\* normal form; a scalar of RawScalars is accepted and normalized to 1; 0 is
\* refused.
ValidScalars == {1, 2}

RawScalars == {3}

DatatypeOk(v) == v.k = "s" /\ v.v \in ValidScalars \cup RawScalars

\* validator(value): the normalized value of a value the datatype accepts
validator(v) == IF v.v \in RawScalars THEN S(1) ELSE v

\* The base of the specification's scenarios: a required title, a required
\* single-valued group author, a multivalued group tags and a file field.
AuthorContent == << Field("name", TRUE, FALSE, FALSE, FALSE) >>

TagsContent == << Field("value", FALSE, FALSE, FALSE, FALSE) >>

BaseContent ==
    << Field("title", TRUE, FALSE, TRUE, FALSE),
       Group("author", TRUE, FALSE, AuthorContent),
       Group("tags", FALSE, TRUE, TagsContent),
       Field("cover", FALSE, FALSE, FALSE, TRUE) >>

\* content.__snames__: the names of one level, in schema order
snames(C) == [i \in DOMAIN C |-> StructName(C[i])]

SNameSet(C) == Range(snames(C))

StructOf(C, n) == C[CHOOSE i \in DOMAIN C : StructName(C[i]) = n]

\* ------------------------------------------------------- schema compiler

\* getattr(struct, 'required', False)
getattr_required_fields_only(s) == s.kind = "field" /\ s.required

getattr_required(s) == s.required

\* Base.schema: one entry per structure of the content, its key marked
\* Required when the structure is required.
schema(C) ==
    [i \in DOMAIN C |->
        [key |-> StructName(C[i]), required |-> getattr_required(C[i]), sub |-> C[i]]]

\* The result of applying a compiled schema: the errors collected, the
\* validated value, and what the datatypes wrote to the memory areas.
Res(errs, out, rel, fl) == [errs |-> errs, out |-> out, rel |-> rel, fl |-> fl]

Merge(f, g) == [x \in (DOMAIN f) \cup (DOMAIN g) |-> IF x \in DOMAIN f THEN f[x] ELSE g[x]]

RECURSIVE ApplyStruct(_, _)
RECURSIVE ApplyDict(_, _)
RECURSIVE ApplyEach(_, _, _)

\* a list schema [validator]: every element validates independently
ApplyEach(s, seq, i) ==
    IF i > Len(seq) THEN Res({}, <<>>, EmptyMap, <<>>)
    ELSE LET one == ApplyStruct([s EXCEPT !.multivalued = FALSE], seq[i])
             rest == ApplyEach(s, seq, i + 1)
         IN Res(one.errs \cup rest.errs, <<one.out>> \o rest.out,
                Merge(rest.rel, one.rel), one.fl \o rest.fl)

\* struct.schema(base, id) applied to one value
ApplyStruct(s, val) ==
    IF s.multivalued
    THEN IF val.k # "l" THEN Res({"expected_list"}, val, EmptyMap, <<>>)
         ELSE LET r == ApplyEach(s, val.v, 1)
              IN Res(r.errs, L(r.out), r.rel, r.fl)
    ELSE IF s.kind = "field"
    THEN IF DatatypeOk(val)
         THEN Res({}, validator(val),
                  IF s.is_rel THEN Put(EmptyMap, s.name, validator(val).v) ELSE EmptyMap,
                  IF s.is_file THEN <<validator(val).v>> ELSE <<>>)
         ELSE Res({"invalid_value"}, val, EmptyMap, <<>>)
    ELSE ApplyDict(schema(s.content), val)

\* voluptuous.Schema(dict)(data): every key of the data must be a key of the
\* schema, every Required key of the schema must be in the data.
ApplyDict(sch, val) ==
    IF val.k # "d" THEN Res({"expected_dict"}, val, EmptyMap, <<>>)
    ELSE LET keys == DOMAIN val.v
             known == {sch[i].key : i \in DOMAIN sch}
             entry(n) == sch[CHOOSE i \in DOMAIN sch : sch[i].key = n]
             sub(n) == ApplyStruct(entry(n).sub, val.v[n])
             good == keys \cap known
             missing == {i \in DOMAIN sch : sch[i].required /\ sch[i].key \notin keys}
             errs == (IF keys \subseteq known THEN {} ELSE {"extra_key"})
                     \cup (IF missing = {} THEN {} ELSE {"missing_required"})
                     \cup UNION {sub(n).errs : n \in good}
             order == [i \in DOMAIN sch |-> sch[i].key]
             RECURSIVE Rel(_), Fl(_)
             Rel(i) == IF i > Len(order) THEN EmptyMap
                       ELSE IF order[i] \in good
                            THEN Merge(sub(order[i]).rel, Rel(i + 1))
                            ELSE Rel(i + 1)
             Fl(i) == IF i > Len(order) THEN <<>>
                      ELSE IF order[i] \in good
                           THEN sub(order[i]).fl \o Fl(i + 1)
                           ELSE Fl(i + 1)
         IN Res(errs, D([n \in good |-> sub(n).out]), Rel(1), Fl(1))

\* ------------------------------------------------------ document validator

\* The callers of validate: threads sharing one Base.
Procs == {"t1", "t2"}

Ids == 1..MaxId

\* _meta.__dict__ of a DocumentMetadata whose id_doc is i
Meta(i) == [k |-> "m", v |-> i]

VARIABLES
    files,      \* Base.__files__: id_doc -> list of files
    reldata,    \* Base.__reldata__: id_doc -> {field name: data}
    pc,         \* per caller: the line of validate it is about to run
    loc,        \* per caller: the locals of its call (document, id, ...)
    res,        \* per caller: what its last call returned or raised
    inst,       \* the document instance under construction or in use
    caller,     \* the list object the caller built for a multivalued group
    multi,      \* the MultiGroupMetaClass list object an accessor created
    last,       \* the last constructor, accessor or list call and its outcome
    conv,       \* a conversion: its input, the name registry and its result
    bases       \* the Base objects built, their content, the last content assignment

vvars == <<files, reldata, pc, loc, res>>

dvars == <<inst, caller, multi, last>>

vars == <<files, reldata, pc, loc, res, inst, caller, multi, last, conv, bases>>

NoLoc == [orig |-> None, document |-> None, id |-> 0, errs |-> {}]

NoOutcome ==
    [status |-> "none", kind |-> "", at |-> "", cause |-> {}, doc |-> None,
     rel |-> EmptyMap, fl |-> <<>>, warnings |-> <<>>]

Raised(kind, at, cause) ==
    [NoOutcome EXCEPT !.status = "raised", !.kind = kind, !.at = at, !.cause = cause]

Returned(doc, rel, fl) ==
    [NoOutcome EXCEPT !.status = "returned", !.doc = doc, !.rel = rel, !.fl = fl]

\* del d[key]
DelAllEntries(m, key) == EmptyMap

DelEntry(m, key) == [x \in (DOMAIN m) \ {key} |-> m[x]]

\* if '_metadata' in document: del document['_metadata']
StripMetadata(doc) ==
    IF "_metadata" \in DOMAIN doc.v THEN D(DelEntry(doc.v, "_metadata")) ELSE doc

\* document['_metadata'] = _meta.__dict__
KeepEmbeddedMetadata(doc, orig, id) ==
    IF orig.k = "d" /\ "_metadata" \in DOMAIN orig.v
    THEN D(Put(doc.v, "_metadata", orig.v["_metadata"]))
    ELSE D(Put(doc.v, "_metadata", Meta(id)))

PutMetadataBack(doc, orig, id) == D(Put(doc.v, "_metadata", Meta(id)))

\* The raw documents handed to validate: every combination of the choices
\* below, and two values that are not dictionaries.
TagLists ==
    UNION {[1..n -> {D(Put(EmptyMap, "value", S(1)))}] : n \in 0..MaxLen}

DocChoices(n) ==
    CASE n = "title" -> {S(1), S(0)}
      [] n = "author" -> {D(Put(EmptyMap, "name", S(1))), D(EmptyMap)}
      [] n = "tags" -> {L(s) : s \in TagLists}
      [] n = "cover" -> {S(2)}
      [] n = "_metadata" -> {Meta(0)}
      [] OTHER -> {S(1)}

RECURSIVE DocsOver(_)
DocsOver(keys) ==
    IF keys = <<>> THEN {EmptyMap}
    ELSE LET rest == DocsOver(Tail(keys))
         IN rest \cup {Put(f, Head(keys), v) : f \in rest, v \in DocChoices(Head(keys))}

RawDocs ==
    {D(f) : f \in DocsOver(<<"title", "author", "tags", "cover", "_metadata", "bogus">>)}
    \cup {None, L(<<>>)}

\* The documents of the concurrent callers.
ConcDocs ==
    {D(f) : f \in DocsOver(<<"title", "author">>)} \cup {None}

\* validate(document, _meta), lines 86-113, one action per line.

\* id = _meta.id_doc.  Calls in flight (or whose result the caller still
\* holds) have pairwise distinct ids.
Call(p, d, i) ==
    /\ pc[p] = "idle"
    /\ \A q \in Procs \ {p} : pc[q] # "idle" => loc[q].id # i
    /\ loc' = [loc EXCEPT ![p] = [orig |-> d, document |-> d, id |-> i, errs |-> {}]]
    /\ pc' = [pc EXCEPT ![p] = "l89"]
    /\ res' = [res EXCEPT ![p] = NoOutcome]
    /\ UNCHANGED <<files, reldata>>
    /\ UNCHANGED <<dvars, conv, bases>>

\* self.__files__[id] = [ ]
L89(p) ==
    /\ pc[p] = "l89"
    /\ files' = Put(files, loc[p].id, <<>>)
    /\ pc' = [pc EXCEPT ![p] = "l90"]
    /\ UNCHANGED <<reldata, loc, res>>
    /\ UNCHANGED <<dvars, conv, bases>>

\* self.__reldata__[id] = { }
L90(p) ==
    /\ pc[p] = "l90"
    /\ reldata' = Put(reldata, loc[p].id, EmptyMap)
    /\ pc' = [pc EXCEPT ![p] = "l93"]
    /\ UNCHANGED <<files, loc, res>>
    /\ UNCHANGED <<dvars, conv, bases>>

\* if '_metadata' in document: del document['_metadata']
\* (None is not iterable: the TypeError leaves validate as it is raised)
L93(p) ==
    /\ pc[p] = "l93"
    /\ IF loc[p].document.k = "n"
       THEN /\ res' = [res EXCEPT ![p] = Raised("TypeError", "strip", {})]
            /\ pc' = [pc EXCEPT ![p] = "done"]
            /\ UNCHANGED loc
       ELSE /\ loc' = [loc EXCEPT ![p].document =
                         IF @.k = "d" THEN StripMetadata(@) ELSE @]
            /\ pc' = [pc EXCEPT ![p] = "l96"]
            /\ UNCHANGED res
    /\ UNCHANGED <<files, reldata>>
    /\ UNCHANGED <<dvars, conv, bases>>

\* _schema = self.schema(id)
L96(p) ==
    /\ pc[p] = "l96"
    /\ pc' = [pc EXCEPT ![p] = "l99"]
    /\ UNCHANGED <<files, reldata, loc, res>>
    /\ UNCHANGED <<dvars, conv, bases>>

\* try: document = _schema(document)
\* The datatypes write what they accept to the memory area of id as they go.
L99(p) ==
    /\ pc[p] = "l99"
    /\ LET id == loc[p].id
           r == ApplyDict(schema(BaseContent), loc[p].document)
           lost == id \notin DOMAIN files \/ id \notin DOMAIN reldata
           errs == r.errs \cup (IF lost THEN {"KeyError"} ELSE {})
       IN /\ reldata' = IF id \in DOMAIN reldata
                        THEN Put(reldata, id, Merge(r.rel, reldata[id]))
                        ELSE reldata
          /\ files' = IF id \in DOMAIN files
                      THEN Put(files, id, files[id] \o r.fl)
                      ELSE files
          /\ IF errs = {}
             THEN /\ loc' = [loc EXCEPT ![p].document = r.out]
                  /\ pc' = [pc EXCEPT ![p] = "l108"]
             ELSE /\ loc' = [loc EXCEPT ![p].errs = errs]
                  /\ pc' = [pc EXCEPT ![p] = "l102"]
    /\ UNCHANGED res
    /\ UNCHANGED <<dvars, conv, bases>>

\* except: del self.__files__[id]
L102(p) ==
    /\ pc[p] = "l102"
    /\ IF loc[p].id \in DOMAIN files
       THEN /\ files' = DelEntry(files, loc[p].id)
            /\ pc' = [pc EXCEPT ![p] = "l103"]
            /\ UNCHANGED res
       ELSE /\ res' = [res EXCEPT ![p] = Raised("KeyError", "rollback", {})]
            /\ pc' = [pc EXCEPT ![p] = "done"]
            /\ UNCHANGED files
    /\ UNCHANGED <<reldata, loc>>
    /\ UNCHANGED <<dvars, conv, bases>>

\* del self.__reldata__[id]
L103_keep_reldata(p) ==
    /\ pc[p] = "l103"
    /\ pc' = [pc EXCEPT ![p] = "l104"]
    /\ UNCHANGED <<files, reldata, loc, res>>
    /\ UNCHANGED <<dvars, conv, bases>>

L103(p) ==
    /\ pc[p] = "l103"
    /\ IF loc[p].id \in DOMAIN reldata
       THEN /\ reldata' = DelEntry(reldata, loc[p].id)
            /\ pc' = [pc EXCEPT ![p] = "l104"]
            /\ UNCHANGED res
       ELSE /\ res' = [res EXCEPT ![p] = Raised("KeyError", "rollback", {})]
            /\ pc' = [pc EXCEPT ![p] = "done"]
            /\ UNCHANGED reldata
    /\ UNCHANGED <<files, loc>>
    /\ UNCHANGED <<dvars, conv, bases>>

\* raise Exception('document data is not according to base definition. ...')
L104(p) ==
    /\ pc[p] = "l104"
    /\ res' = [res EXCEPT ![p] = Raised("DocumentValidationError", "apply", loc[p].errs)]
    /\ pc' = [pc EXCEPT ![p] = "done"]
    /\ UNCHANGED <<files, reldata, loc>>
    /\ UNCHANGED <<dvars, conv, bases>>

\* document['_metadata'] = _meta.__dict__
L108(p) ==
    /\ pc[p] = "l108"
    /\ loc' = [loc EXCEPT ![p].document = PutMetadataBack(@, loc[p].orig, loc[p].id)]
    /\ pc' = [pc EXCEPT ![p] = "l110"]
    /\ UNCHANGED <<files, reldata, res>>
    /\ UNCHANGED <<dvars, conv, bases>>

\* return (document, self.__reldata__[id], self.__files__[id], [])
L110(p) ==
    /\ pc[p] = "l110"
    /\ LET id == loc[p].id
       IN res' = [res EXCEPT ![p] =
                    IF id \in DOMAIN reldata /\ id \in DOMAIN files
                    THEN Returned(loc[p].document, reldata[id], files[id])
                    ELSE Raised("KeyError", "return", {})]
    /\ pc' = [pc EXCEPT ![p] = "done"]
    /\ UNCHANGED <<files, reldata, loc>>
    /\ UNCHANGED <<dvars, conv, bases>>

\* The caller takes the result; its next call may reuse any free id.
Ack(p) ==
    /\ pc[p] = "done"
    /\ pc' = [pc EXCEPT ![p] = "idle"]
    /\ loc' = [loc EXCEPT ![p] = NoLoc]
    /\ res' = [res EXCEPT ![p] = NoOutcome]
    /\ UNCHANGED <<files, reldata>>
    /\ UNCHANGED <<dvars, conv, bases>>

\* -------------------------------------------------------- generated types

\* attr_name = '_' + structname
PrivateName(n) == "_" \o n

\* content.__rnames__: the required names of one level
rnames(C) == {StructName(C[i]) : i \in {j \in DOMAIN C : C[j].required}}

\* a MultiGroupMetaClass list of the group named n
M(n, s) == [k |-> "ml", t |-> n, v |-> s]

\* isinstance(value, list)
IsList(v) == v.k \in {"l", "ml"}

\* Content.__allstructs__: {structure name: structure} over every level.
\* One name holds one structure; pick says which of two homonyms it keeps.
RECURSIVE Flatten(_)
Flatten(C) ==
    IF Len(C) = 0 THEN <<>>
    ELSE <<Head(C)>> \o Flatten(Head(C).content) \o Flatten(Tail(C))

allstructs(C, pick) ==
    LET flat == Flatten(C)
        at(n) == {i \in DOMAIN flat : StructName(flat[i]) = n}
        first(n) == CHOOSE i \in at(n) : \A j \in at(n) : i <= j
        final(n) == CHOOSE i \in at(n) : \A j \in at(n) : i >= j
    IN [n \in {StructName(flat[i]) : i \in DOMAIN flat} |->
            IF pick = "first" THEN flat[first(n)] ELSE flat[final(n)]]

\* isinstance(value, base.__metaclasses__[structname]): the type registered
\* under the name is the one generated for the structure the registry holds.
IsInstance(v, reg, n) == reg[n].kind = "group" /\ v.k = "i" /\ v.t = n

\* What a setter or a constructor leaves: the error raised ("" for none)
\* and the slots of the instance afterwards.
Out(err, slots) == [err |-> err, slots |-> slots]

\* FieldMetaClass(value): __init__ assigns __value__ and __setattr__ runs the
\* datatype's validator on it (on each element of a multivalued field).
FieldMetaClass_store_given(f, v) ==
    IF f.multivalued
    THEN IF ~IsList(v) THEN [err |-> "TypeMismatch", val |-> None]
         ELSE IF \A i \in DOMAIN v.v : DatatypeOk(v.v[i])
              THEN [err |-> "", val |-> W(L(v.v))]
              ELSE [err |-> "FieldValidationError", val |-> None]
    ELSE IF DatatypeOk(v)
         THEN [err |-> "", val |-> W(v)]
         ELSE [err |-> "FieldValidationError", val |-> None]

FieldMetaClass(f, v) ==
    IF f.multivalued
    THEN IF ~IsList(v) THEN [err |-> "TypeMismatch", val |-> None]
         ELSE IF \A i \in DOMAIN v.v : DatatypeOk(v.v[i])
              THEN [err |-> "", val |-> W(L([i \in DOMAIN v.v |-> validator(v.v[i])]))]
              ELSE [err |-> "FieldValidationError", val |-> None]
    ELSE IF DatatypeOk(v)
         THEN [err |-> "", val |-> W(validator(v))]
         ELSE [err |-> "FieldValidationError", val |-> None]

\* struct_metaclass(value) for a Field accessor: the registered type is
\* called with one positional argument.
CallMetaclass(reg, n, v) ==
    IF reg[n].kind = "field" THEN FieldMetaClass(reg[n], v)
    ELSE [err |-> "TypeError", val |-> None]

\* Base._make_meta_prop.setter: the checked value is stored as it is.
make_meta_prop_setter_store_first(s, reg, slots, v) ==
    IF s.kind = "group" /\ ~s.multivalued /\ ~IsInstance(v, reg, s.name)
    THEN Out("TypeMismatch", Put(slots, PrivateName(s.name), v))
    ELSE Out("", Put(slots, PrivateName(s.name), v))

make_meta_prop_setter(s, reg, slots, v) ==
    IF s.kind = "field"
    THEN LET w == CallMetaclass(reg, s.name, v)
         IN IF w.err # "" THEN Out(w.err, slots)
            ELSE Out("", Put(slots, PrivateName(s.name), w.val))
    ELSE IF s.multivalued
    THEN IF ~IsList(v) THEN Out("TypeMismatch", slots)
         ELSE IF ~(\A i \in DOMAIN v.v : IsInstance(v.v[i], reg, s.name))
              THEN Out("TypeMismatch", slots)
              ELSE Out("", Put(slots, PrivateName(s.name), v))
    ELSE IF ~IsInstance(v, reg, s.name) THEN Out("TypeMismatch", slots)
         ELSE Out("", Put(slots, PrivateName(s.name), v))

\* generate_property.setter: base.metaclass(structname) is the type registered
\* under the name; a checked list is copied into a new MultiGroupMetaClass
\* list, which is what the slot holds.
generate_property_setter(s, reg, slots, v) ==
    IF s.kind = "field"
    THEN LET w == CallMetaclass(reg, s.name, v)
         IN IF w.err # "" THEN Out(w.err, slots)
            ELSE Out("", Put(slots, PrivateName(s.name), w.val))
    ELSE IF s.multivalued
    THEN IF ~IsList(v) THEN Out("TypeMismatch", slots)
         ELSE IF ~(\A i \in DOMAIN v.v : IsInstance(v.v[i], reg, s.name))
              THEN Out("TypeMismatch", slots)
              ELSE Out("", Put(slots, PrivateName(s.name), M(s.name, v.v)))
    ELSE IF ~IsInstance(v, reg, s.name) THEN Out("TypeMismatch", slots)
         ELSE Out("", Put(slots, PrivateName(s.name), v))

\* generate_property.getter / _make_meta_prop.getter: the slot, unwrapped
\* for a Field; AttributeError when the slot was never assigned.
getter(s, slots) ==
    IF PrivateName(s.name) \notin DOMAIN slots THEN [err |-> "AttributeError", val |-> None]
    ELSE LET value == slots[PrivateName(s.name)]
         IN IF s.kind = "field" /\ value.k = "w" THEN [err |-> "", val |-> value.v]
            ELSE [err |-> "", val |-> value]

\* Keyword arguments: a sequence of <<name, value>> in iteration order.
KwNames(kw) == {kw[i][1] : i \in DOMAIN kw}

\* What a constructor leaves: the error, the slots assigned so far and the
\* number of setattr calls that completed.
Made(err, slots, nset) == [err |-> err, slots |-> slots, nset |-> nset]

\* Base.metaclass: BaseMetaClass.__init__(self, **kwargs)
RECURSIVE BaseMetaClassLoop(_, _, _, _, _)
BaseMetaClassLoop(C, reg, kw, i, slots) ==
    IF i > Len(kw) THEN Made("", slots, i - 1)
    ELSE IF kw[i][1] \in SNameSet(C)
    THEN LET r == make_meta_prop_setter(StructOf(C, kw[i][1]), reg, slots, kw[i][2])
         IN IF r.err # "" THEN Made(r.err, r.slots, i - 1)
            ELSE BaseMetaClassLoop(C, reg, kw, i + 1, r.slots)
    ELSE Made("UnknownStructure", slots, i - 1)

BaseMetaClassInit_check_last(C, reg, kw) ==
    LET r == BaseMetaClassLoop(C, reg, kw, 1, EmptyMap)
    IN IF r.err = "" /\ rnames(C) \ KwNames(kw) # {}
       THEN Made("MissingRequiredStructure", r.slots, r.nset)
       ELSE r

BaseMetaClassInit(C, reg, kw) ==
    IF rnames(C) \ KwNames(kw) # {}
    THEN Made("MissingRequiredStructure", EmptyMap, 0)
    ELSE BaseMetaClassLoop(C, reg, kw, 1, EmptyMap)

\* MetaClass.__valreq__
valreq == TRUE

\* lbutils.validate_required(rnames, kwargs): raises when a name is missing
validate_required(names, kw) == names \subseteq KwNames(kw)

\* setattr(self, arg, value) on an instance of generate_metaclass's MetaClass:
\* the class has one property per child name, one slot per private name and,
\* for the root type, the _metadata property over the __metadata__ slot; it
\* has no __dict__, so any other name is an AttributeError.
object_setattr(C, root, reg, slots, arg, v) ==
    IF arg \in SNameSet(C)
    THEN generate_property_setter(StructOf(C, arg), reg, slots, v)
    ELSE IF arg \in {PrivateName(n) : n \in SNameSet(C)}
    THEN Out("", Put(slots, arg, v))
    ELSE IF root /\ arg = "_metadata"
    THEN IF v.k = "m" THEN Out("", Put(slots, "__metadata__", v))
         ELSE Out("TypeMismatch", slots)
    ELSE IF root /\ arg = "__metadata__"
    THEN Out("", Put(slots, arg, v))
    ELSE Out("UnknownStructure", slots)

\* generate_metaclass: MetaClass.__init__(self, **kwargs)
RECURSIVE MetaClassLoop(_, _, _, _, _, _)
MetaClassLoop(C, root, reg, kw, i, slots) ==
    IF i > Len(kw) THEN Made("", slots, i - 1)
    ELSE LET r == object_setattr(C, root, reg, slots, kw[i][1], kw[i][2])
         IN IF r.err # "" THEN Made(r.err, r.slots, i - 1)
            ELSE MetaClassLoop(C, root, reg, kw, i + 1, r.slots)

MetaClassInit(C, root, reg, kw) ==
    IF valreq /\ ~validate_required(rnames(C), kw)
    THEN Made("MissingRequiredStructure", EmptyMap, 0)
    ELSE MetaClassLoop(C, root, reg, kw, 1, EmptyMap)

\* MultiGroupMetaClass.append
MultiAppend_append_first(n, reg, elems, x) ==
    IF IsInstance(x, reg, n) THEN [err |-> "", elems |-> Append(elems, x)]
    ELSE [err |-> "TypeMismatch", elems |-> Append(elems, x)]

MultiAppend(n, reg, elems, x) ==
    IF IsInstance(x, reg, n) THEN [err |-> "", elems |-> Append(elems, x)]
    ELSE [err |-> "TypeMismatch", elems |-> elems]

\* MultiGroupMetaClass.__setitem__
MultiSetItem(n, reg, elems, i, x) ==
    IF ~IsInstance(x, reg, n) THEN [err |-> "TypeMismatch", elems |-> elems]
    ELSE IF i \notin DOMAIN elems THEN [err |-> "IndexError", elems |-> elems]
    ELSE [err |-> "", elems |-> [elems EXCEPT ![i] = x]]

\* list.insert(0, x), which MultiGroupMetaClass inherits from list as it is
ListInsert(elems, x) == <<x>> \o elems

\* --------------------------------------------- instances and their lists

\* The registry of the scenario base (its names are all distinct).
Reg == allstructs(BaseContent, "first")

AuthorInst == I("author", Put(EmptyMap, "_name", W(S(1))))

TagInst == I("tags", Put(EmptyMap, "_value", W(S(1))))

\* What callers put in a list meant for tags: tags instances, and an
\* instance of another generated type.
ListElems == {TagInst, AuthorInst}

CallerLists == UNION {[1..n -> ListElems] : n \in 0..MaxLen}

NoList == [live |-> FALSE, elems |-> <<>>]

NoInst == [live |-> FALSE, gen |-> "", slots |-> EmptyMap]

NoLast ==
    [op |-> "", gen |-> "", name |-> "", arg |-> None, err |-> "", nset |-> 0,
     missing |-> FALSE, unknown |-> {}, legalok |-> FALSE,
     pre |-> EmptyMap, prelist |-> <<>>]

\* the list object a reference names
ListOf(l) == IF l = "caller" THEN caller ELSE multi

\* the value behind a reference, as the setters see it
Deref(v) ==
    IF v.k # "r" THEN v
    ELSE IF v.v = "caller" THEN L(caller.elems) ELSE M("tags", multi.elems)

\* The slot table after a setter ran with the list object `passed`: a slot
\* the setter filled with the plain list holds that very object, a slot it
\* filled with a new MultiGroupMetaClass list holds the new object.
Rebind(slots, passed) ==
    [n \in DOMAIN slots |->
        IF slots[n].k = "l" THEN passed
        ELSE IF slots[n].k = "ml" THEN R("multi")
        ELSE slots[n]]

NewMulti(slots) ==
    IF \E n \in DOMAIN slots : slots[n].k = "ml"
    THEN [live |-> TRUE,
          elems |-> slots[CHOOSE n \in DOMAIN slots : slots[n].k = "ml"].v]
    ELSE multi

\* The keyword arguments tried on a constructor, by name.
KwChoices(n) ==
    CASE n = "title" -> {S(1), S(0)}
      [] n = "author" -> {AuthorInst, D(EmptyMap)}
      [] n = "tags" -> {R("caller")}
      [] n = "_title" -> {S(0)}
      [] n = "name" -> {S(1)}
      [] OTHER -> {}

KwArgNames == {"title", "author", "tags", "_title", "name"}

KwPairs == {<<nm, v>> : nm \in KwArgNames, v \in UNION {KwChoices(m) : m \in KwArgNames}}

RECURSIVE Kwargs(_)
Kwargs(n) ==
    IF n = 0 THEN {<<>>}
    ELSE LET shorter == Kwargs(n - 1)
         IN shorter \cup
            {Append(kw, a) :
                kw \in {s \in shorter : Len(s) = n - 1},
                a \in {b \in KwPairs : b[2] \in KwChoices(b[1])}}

LegalKwargs(n) ==
    {kw \in Kwargs(n) : \A i, j \in DOMAIN kw : i # j => kw[i][1] # kw[j][1]}

AllKwargs == LegalKwargs(MaxArgs)

\* The constructor of the root type, by generator: Base.metaclass() of
\* struct.py, or generate_metaclass(base) of lbdoc.
Construct(gen, kw) ==
    IF gen = "struct" THEN BaseMetaClassInit(BaseContent, Reg, kw)
    ELSE MetaClassInit(BaseContent, TRUE, Reg, kw)

\* doc = Type(**kwargs)
New(gen, kw) ==
    /\ ~inst.live
    /\ last.op # "init"
    /\ (\E i \in DOMAIN kw : kw[i][2].k = "r") => caller.live
    /\ LET args == [i \in DOMAIN kw |-> <<kw[i][1], Deref(kw[i][2])>>]
           legal == SelectSeq(args, LAMBDA a : a[1] \in SNameSet(BaseContent))
           r == Construct(gen, args)
       IN /\ inst' = IF r.err = ""
                     THEN [live |-> TRUE, gen |-> gen, slots |-> Rebind(r.slots, R("caller"))]
                     ELSE NoInst
          /\ multi' = IF r.err = "" THEN NewMulti(r.slots) ELSE multi
          /\ last' = [NoLast EXCEPT !.op = "init", !.gen = gen, !.err = r.err,
                         !.nset = r.nset,
                         !.missing = (rnames(BaseContent) \ KwNames(kw) # {}),
                         !.unknown = KwNames(kw) \ SNameSet(BaseContent),
                         !.legalok = (Construct(gen, legal).err = ""),
                         !.pre = r.slots]
    /\ UNCHANGED <<vvars, caller, conv, bases>>

\* the caller catches the error of a constructor that failed
Caught ==
    /\ ~inst.live
    /\ last.op = "init"
    /\ last' = NoLast
    /\ UNCHANGED <<vvars, inst, caller, multi, conv, bases>>

\* The values assigned through an accessor.
SetValues ==
    {S(1), S(0), D(EmptyMap), AuthorInst, TagInst}
    \cup {R(l) : l \in {x \in {"caller", "multi"} : ListOf(x).live}}

\* doc.<name> = value
SetAttr(n, v) ==
    /\ inst.live
    /\ LET s == StructOf(BaseContent, n)
           r == IF inst.gen = "struct"
                THEN make_meta_prop_setter(s, Reg, inst.slots, Deref(v))
                ELSE generate_property_setter(s, Reg, inst.slots, Deref(v))
       IN /\ inst' = [inst EXCEPT !.slots = Rebind(r.slots, v)]
          /\ multi' = NewMulti(r.slots)
          /\ last' = [NoLast EXCEPT !.op = "set", !.gen = inst.gen, !.name = n,
                         !.arg = Deref(v), !.err = r.err, !.pre = inst.slots]
    /\ UNCHANGED <<vvars, caller, conv, bases>>

\* the caller builds a list, to hand it to a constructor or an accessor
NewList(s) ==
    /\ ~caller.live
    /\ last.op # "init" \/ inst.live
    /\ caller' = [live |-> TRUE, elems |-> s]
    /\ UNCHANGED <<vvars, inst, multi, last, conv, bases>>

\* l.append(x), on the caller's list or on the list an accessor returned
ListAppend(l, x) ==
    /\ inst.live
    /\ ListOf(l).live
    /\ Len(ListOf(l).elems) < MaxLen
    /\ LET r == IF l = "caller"
                THEN [err |-> "", elems |-> Append(caller.elems, x)]
                ELSE MultiAppend("tags", Reg, multi.elems, x)
       IN /\ caller' = IF l = "caller" THEN [caller EXCEPT !.elems = r.elems] ELSE caller
          /\ multi' = IF l = "multi" THEN [multi EXCEPT !.elems = r.elems] ELSE multi
          /\ last' = [NoLast EXCEPT !.op = "append", !.name = l, !.arg = x,
                         !.err = r.err, !.prelist = ListOf(l).elems]
    /\ UNCHANGED <<vvars, inst, conv, bases>>

\* l[i] = x
ListSetItem(l, i, x) ==
    /\ inst.live
    /\ ListOf(l).live
    /\ i \in DOMAIN ListOf(l).elems
    /\ LET r == IF l = "caller"
                THEN [err |-> "", elems |-> [caller.elems EXCEPT ![i] = x]]
                ELSE MultiSetItem("tags", Reg, multi.elems, i, x)
       IN /\ caller' = IF l = "caller" THEN [caller EXCEPT !.elems = r.elems] ELSE caller
          /\ multi' = IF l = "multi" THEN [multi EXCEPT !.elems = r.elems] ELSE multi
          /\ last' = [NoLast EXCEPT !.op = "setitem", !.name = l, !.arg = x,
                         !.err = r.err, !.prelist = ListOf(l).elems]
    /\ UNCHANGED <<vvars, inst, conv, bases>>

\* l.insert(0, x): list's own method on either list
ListInsertAt0(l, x) ==
    /\ inst.live
    /\ ListOf(l).live
    /\ Len(ListOf(l).elems) < MaxLen
    /\ caller' = IF l = "caller"
                 THEN [caller EXCEPT !.elems = ListInsert(@, x)] ELSE caller
    /\ multi' = IF l = "multi"
                THEN [multi EXCEPT !.elems = ListInsert(@, x)] ELSE multi
    /\ last' = [NoLast EXCEPT !.op = "insert", !.name = l, !.arg = x,
                   !.prelist = ListOf(l).elems]
    /\ UNCHANGED <<vvars, inst, conv, bases>>

DocInit ==
    /\ inst = NoInst
    /\ caller = NoList
    /\ multi = NoList
    /\ last = NoLast

\* -------------------------------------------------------------- converters

\* A base whose structure names repeat across nesting branches: name is a
\* Field of author and a Group of publisher.
RepeatContent ==
    << Group("author", FALSE, FALSE, << Field("name", TRUE, FALSE, FALSE, FALSE) >>),
       Group("publisher", FALSE, FALSE,
             << Group("name", FALSE, FALSE,
                      << Field("first", FALSE, FALSE, FALSE, FALSE) >>) >>) >>

ContentOf(b) == IF b = "scenario" THEN BaseContent ELSE RepeatContent

\* A result of a conversion: the error raised ("" for none) and the value.
Conv(err, val) == [err |-> err, val |-> val]

\* the members of a dict in iteration order
RECURSIVE KeySeq(_)
KeySeq(keys) ==
    IF keys = {} THEN <<>>
    ELSE LET n == CHOOSE x \in keys : TRUE IN <<n>> \o KeySeq(keys \ {n})

\* Base.get_metaclass(sname) called on it: the type generated for the
\* registered structure, built as generate_metaclass builds it.
GroupInit(reg, n, kw) ==
    LET r == MetaClassInit(reg[n].content, FALSE, reg, kw)
    IN Conv(r.err, I(n, r.slots))

\* Base.json2document(jsonobj, metaclass): base is the content of the Base,
\* n the name of the group whose type is built ("" for the Base itself).
RECURSIVE json2document(_, _, _, _)
RECURSIVE json2members(_, _, _, _, _)
RECURSIVE json2elements(_, _, _, _, _)

\* the elements of a multivalued group, each converted with the group's type
json2elements(base, reg, n, seq, i) ==
    IF i > Len(seq) THEN Conv("", <<>>)
    ELSE LET one == json2document(base, reg, seq[i], n)
             rest == json2elements(base, reg, n, seq, i + 1)
         IN IF one.err # "" THEN one
            ELSE IF rest.err # "" THEN rest
            ELSE Conv("", <<one.val>> \o rest.val)

\* the loop over the members: kwargs[member] for each
json2members(base, reg, obj, keys, i) ==
    IF i > Len(keys) THEN Conv("", <<>>)
    ELSE LET member == keys[i]
             value == obj.v[member]
             rest == json2members(base, reg, obj, keys, i + 1)
             one ==
                IF member \notin DOMAIN reg THEN Conv("KeyError", None)
                ELSE LET struct == reg[member]
                     IN IF struct.kind = "field" THEN Conv("", value)
                        ELSE IF struct.multivalued
                        THEN IF value.k # "l" THEN Conv("TypeError", None)
                             ELSE LET es == json2elements(base, reg, member, value.v, 1)
                                  IN IF es.err # "" THEN es ELSE Conv("", L(es.val))
                        ELSE json2document(base, reg, value, member)
         IN IF one.err # "" THEN one
            ELSE IF rest.err # "" THEN rest
            ELSE Conv("", << <<member, one.val>> >> \o rest.val)

json2document(base, reg, jsonobj, n) ==
    IF jsonobj.k # "d" THEN Conv("TypeError", None)
    ELSE LET kw == json2members(base, reg, jsonobj, KeySeq(DOMAIN jsonobj.v), 1)
         IN IF kw.err # "" THEN kw
            ELSE IF n = ""
            THEN LET r == BaseMetaClassInit(base, reg, kw.val)
                 IN Conv(r.err, I("", r.slots))
            ELSE GroupInit(reg, n, kw.val)

\* The children of the class of a document instance.
ClassContent(base, reg, document) ==
    IF document.t = "" THEN base ELSE reg[document.t].content

\* Base.document2dict(document, struct): C is struct.content, or the content
\* of the Base when no struct is given.
RECURSIVE document2dict(_, _, _, _)
RECURSIVE dict2members(_, _, _, _, _)
RECURSIVE dict2elements(_, _, _, _, _)

dict2elements(base, reg, struct, seq, i) ==
    IF i > Len(seq) THEN Conv("", <<>>)
    ELSE LET one == document2dict(base, reg, seq[i], struct.content)
             rest == dict2elements(base, reg, struct, seq, i + 1)
         IN IF one.err # "" THEN one
            ELSE IF rest.err # "" THEN rest
            ELSE Conv("", <<one.val>> \o rest.val)

\* the loop over snames: the dict built so far is the value
dict2members(base, reg, document, names, i) ==
    IF i > Len(names) THEN Conv("", EmptyMap)
    ELSE LET sname == names[i]
             cls == ClassContent(base, reg, document)
             rest == dict2members(base, reg, document, names, i + 1)
             got == IF sname \in SNameSet(cls)
                    THEN getter(StructOf(cls, sname), document.v)
                    ELSE [err |-> "AttributeError", val |-> None]
         IN IF rest.err # "" THEN rest
            ELSE IF got.err # "" THEN rest
            ELSE LET struct == reg[sname]
                     one ==
                        IF struct.kind = "field" THEN Conv("", got.val)
                        ELSE IF struct.multivalued
                        THEN IF ~IsList(got.val) THEN Conv("TypeError", None)
                             ELSE LET es == dict2elements(base, reg, struct, got.val.v, 1)
                                  IN IF es.err # "" THEN es ELSE Conv("", L(es.val))
                        ELSE document2dict(base, reg, got.val, struct.content)
                 IN IF one.err # "" THEN one
                    ELSE Conv("", Put(rest.val, sname, one.val))

document2dict(base, reg, document, C) ==
    IF document.k # "i" THEN Conv("AttributeError", None)
    ELSE LET r == dict2members(base, reg, document, snames(C), 1)
         IN IF r.err # "" THEN r ELSE Conv("", D(r.val))

\* The raw documents that conform to a content: every required name, any of
\* the others, each value of its structure's shape.
RECURSIVE DocsOf(_)
RECURSIVE ValuesOf(_)

ValuesOf(s) ==
    LET one == IF s.kind = "field" THEN {S(x) : x \in ValidScalars}
               ELSE {D(f) : f \in DocsOf(s.content)}
    IN IF s.multivalued
       THEN {L(q) : q \in UNION {[1..n -> one] : n \in 0..MaxLen}}
       ELSE one

DocsOf(C) ==
    IF Len(C) = 0 THEN {EmptyMap}
    ELSE LET s == Head(C)
             rest == DocsOf(Tail(C))
             with == {Put(f, s.name, v) : f \in rest, v \in ValuesOf(s)}
         IN IF s.required THEN with ELSE rest \cup with

NoConv == [base |-> "", pick |-> "", doc |-> None, done |-> FALSE, err |-> "", out |-> None]

\* document2dict(json2document(d))
RoundTrip ==
    /\ conv.base # ""
    /\ ~conv.done
    /\ LET base == ContentOf(conv.base)
           reg == allstructs(base, conv.pick)
           typed == json2document(base, reg, conv.doc, "")
           raw == IF typed.err # "" THEN typed
                  ELSE document2dict(base, reg, typed.val, base)
       IN conv' = [conv EXCEPT !.done = TRUE, !.err = raw.err, !.out = raw.val]
    /\ UNCHANGED <<vvars, dvars, bases>>

ConvInit ==
    \E b \in {"scenario", "repeat"}, k \in {"first", "last"} :
        \E f \in DocsOf(ContentOf(b)) :
            conv = [NoConv EXCEPT !.base = b, !.pick = k, !.doc = D(f)]

\* ------------------------------------------------------- content of a Base

\* The two Base classes: lbbase/__init__.py and lbbase/struct.py.
BaseGens == {"old", "struct"}

\* a Field or Group object as an element of a content
St(s) == [k |-> "st", v |-> s]

\* a Content object holding the structures of seq
Cn(seq) == [k |-> "c", v |-> seq]

\* Base.content setter of lbbase/__init__.py: the value left in _content
\* (prev when the setter raised) and the error raised.
content_setter_old(prev, c) ==
    IF c.k # "l" THEN [err |-> "TypeError", content |-> prev]
    ELSE IF \E i \in DOMAIN c.v : c.v[i].k # "st"
    THEN [err |-> "InstanceError", content |-> prev]
    ELSE [err |-> "", content |-> L(c.v)]

\* Base.content setter of lbbase/struct.py
content_setter(prev, c) ==
    IF c.k # "c" THEN [err |-> "ValueError", content |-> prev]
    ELSE IF Len(c.v) = 0 THEN [err |-> "ValueError", content |-> prev]
    ELSE [err |-> "", content |-> c]

SetContent(g, prev, c) ==
    IF g = "old" THEN content_setter_old(prev, c) ELSE content_setter(prev, c)

NoBase == [built |-> FALSE, content |-> None]

NoBases ==
    [obj |-> [g \in BaseGens |-> NoBase],
     op |-> "", gen |-> "", arg |-> None, err |-> "", pre |-> NoBase]

\* The elements tried in a content: a Field, a Group, and a value that is
\* neither.
ContentElems == {St(BaseContent[1]), St(BaseContent[2]), S(1)}

SeqsOver(E, n) == UNION {[1..m -> E] : m \in 0..n}

\* The values tried as content: plain lists, Content objects (which hold
\* structures of distinct names only), and values of other types.
ContentValues ==
    {L(q) : q \in SeqsOver(ContentElems, MaxLen)}
    \cup {Cn(q) : q \in {r \in SeqsOver(ContentElems \ {S(1)}, MaxLen) :
                            \A i, j \in DOMAIN r : i # j => r[i] # r[j]}}
    \cup {None, D(EmptyMap)}

\* base = Base(..., content): __init__ assigns self.content; when the setter
\* raises, no Base is built.
BaseNew(g, c) ==
    /\ ~bases.obj[g].built
    /\ LET r == SetContent(g, None, c)
       IN bases' = [bases EXCEPT
                      !.obj[g] = IF r.err = ""
                                 THEN [built |-> TRUE, content |-> r.content]
                                 ELSE NoBase,
                      !.op = "new", !.gen = g, !.arg = c, !.err = r.err,
                      !.pre = NoBase]
    /\ UNCHANGED <<vvars, dvars, conv>>

\* base.content = c
AssignContent(g, c) ==
    /\ bases.obj[g].built
    /\ LET r == SetContent(g, bases.obj[g].content, c)
       IN bases' = [bases EXCEPT
                      !.obj[g].content = r.content,
                      !.op = "assign", !.gen = g, !.arg = c, !.err = r.err,
                      !.pre = bases.obj[g]]
    /\ UNCHANGED <<vvars, dvars, conv>>

BasesInit == bases = NoBases

\* --------------------------------------------------------- Field accessors

\* A base of Fields only: a required single-valued one and a multivalued one.
FieldsContent ==
    << Field("title", TRUE, FALSE, FALSE, FALSE),
       Field("keywords", FALSE, TRUE, FALSE, FALSE) >>

FieldsReg == allstructs(FieldsContent, "first")

\* The scalars tried: of the datatype, accepted and normalized, refused.
FieldScalars == {S(1), S(3), S(0)}

\* The values assigned to a Field accessor.
FieldValues ==
    FieldScalars \cup {L(q) : q \in UNION {[1..n -> FieldScalars] : n \in 0..MaxLen}}

\* The keyword arguments of a constructor of the Fields base, in each order.
FieldKwargs ==
    {<<>>}
    \cup {<< <<n, v>> >> : n \in SNameSet(FieldsContent), v \in FieldValues}
    \cup {<< <<p[1], v>>, <<p[2], w>> >> :
            p \in {q \in SNameSet(FieldsContent) \X SNameSet(FieldsContent) : q[1] # q[2]},
            v \in FieldValues, w \in FieldValues}

\* the keyword arguments as a dict
KwDict(kw) ==
    D([n \in KwNames(kw) |-> kw[CHOOSE i \in DOMAIN kw : kw[i][1] = n][2]])

\* doc = Type(**kwargs) for the Fields base, by generator
FieldNew(gen, kw) ==
    /\ ~inst.live
    /\ last.op = ""
    /\ LET r == IF gen = "struct"
                THEN BaseMetaClassInit(FieldsContent, FieldsReg, kw)
                ELSE MetaClassInit(FieldsContent, TRUE, FieldsReg, kw)
       IN /\ inst' = IF r.err = ""
                     THEN [live |-> TRUE, gen |-> gen, slots |-> r.slots]
                     ELSE NoInst
          /\ last' = [NoLast EXCEPT !.op = "finit", !.gen = gen, !.arg = KwDict(kw),
                         !.err = r.err, !.nset = r.nset,
                         !.missing = (rnames(FieldsContent) \ KwNames(kw) # {}),
                         !.pre = r.slots]
    /\ UNCHANGED <<vvars, caller, multi, conv, bases>>

\* doc.<field name> = value
FieldSet(n, v) ==
    /\ inst.live
    /\ LET s == StructOf(FieldsContent, n)
           r == IF inst.gen = "struct"
                THEN make_meta_prop_setter(s, FieldsReg, inst.slots, v)
                ELSE generate_property_setter(s, FieldsReg, inst.slots, v)
       IN /\ inst' = [inst EXCEPT !.slots = r.slots]
          /\ last' = [NoLast EXCEPT !.op = "fset", !.gen = inst.gen, !.name = n,
                         !.arg = v, !.err = r.err, !.pre = inst.slots]
    /\ UNCHANGED <<vvars, caller, multi, conv, bases>>

\* the instance is dropped, or the error of a constructor that failed is
\* caught, and another instance may be built
FieldDrop ==
    /\ inst.live \/ last.op # ""
    /\ inst' = NoInst
    /\ last' = NoLast
    /\ UNCHANGED <<vvars, caller, multi, conv, bases>>

ValidateInit ==
    /\ files = EmptyMap
    /\ reldata = EmptyMap
    /\ pc = [p \in Procs |-> "idle"]
    /\ loc = [p \in Procs |-> NoLoc]
    /\ res = [p \in Procs |-> NoOutcome]

Init == ValidateInit /\ DocInit /\ conv = NoConv /\ BasesInit

\* One caller at a time: validations never overlap.
Next ==
    \/ \E d \in RawDocs, i \in Ids : Call("t1", d, i)
    \/ L89("t1")
    \/ L90("t1")
    \/ L93("t1")
    \/ L96("t1")
    \/ L99("t1")
    \/ L102("t1")
    \/ L103("t1")
    \/ L104("t1")
    \/ L108("t1")
    \/ L110("t1")
    \/ Ack("t1")

Spec == Init /\ [][Next]_vars

\* Several callers, their lines interleaved.
NextConc ==
    \/ \E p \in Procs, d \in ConcDocs, i \in Ids : Call(p, d, i)
    \/ \E p \in Procs : L89(p)
    \/ \E p \in Procs : L90(p)
    \/ \E p \in Procs : L93(p)
    \/ \E p \in Procs : L96(p)
    \/ \E p \in Procs : L99(p)
    \/ \E p \in Procs : L102(p)
    \/ \E p \in Procs : L103(p)
    \/ \E p \in Procs : L104(p)
    \/ \E p \in Procs : L108(p)
    \/ \E p \in Procs : L110(p)
    \/ \E p \in Procs : Ack(p)

SpecConc == Init /\ [][NextConc]_vars

\* A document type is built and used: constructor, accessors, list calls.
NextDoc ==
    \/ \E gen \in {"struct", "lbdoc"}, kw \in AllKwargs : New(gen, kw)
    \/ Caught
    \/ \E n \in SNameSet(BaseContent), v \in SetValues : SetAttr(n, v)
    \/ \E s \in CallerLists : NewList(s)
    \/ \E l \in {"caller", "multi"}, x \in ListElems : ListAppend(l, x)
    \/ \E l \in {"caller", "multi"}, i \in 1..MaxLen, x \in ListElems : ListSetItem(l, i, x)
    \/ \E l \in {"caller", "multi"}, x \in ListElems : ListInsertAt0(l, x)

SpecDoc == Init /\ [][NextDoc]_vars

\* A conforming raw document is converted to a typed document and back.
InitConv == ValidateInit /\ DocInit /\ ConvInit /\ BasesInit

NextConv == RoundTrip

SpecConv == InitConv /\ [][NextConv]_vars

\* Bases are built and their content is assigned again.
NextBase ==
    \/ \E g \in BaseGens, c \in ContentValues : BaseNew(g, c)
    \/ \E g \in BaseGens, c \in ContentValues : AssignContent(g, c)

SpecBase == Init /\ [][NextBase]_vars

\* A document type of Fields is built and its accessors are assigned.
NextField ==
    \/ \E gen \in {"struct", "lbdoc"}, kw \in FieldKwargs : FieldNew(gen, kw)
    \/ \E n \in SNameSet(FieldsContent), v \in FieldValues : FieldSet(n, v)
    \/ FieldDrop

SpecField == Init /\ [][NextField]_vars

\* --------------------------------------------------- claims: the validator

\* The raw document of a finished call with its embedded metadata removed.
Stripped(d) == IF d.k = "d" THEN D(DelEntry(d.v, "_metadata")) ELSE d

Entry(m, i) == IF i \in DOMAIN m THEN <<m[i]>> ELSE <<>>

NoScratch(i) == i \notin DOMAIN files /\ i \notin DOMAIN reldata

OmitsRequired(d) ==
    /\ d.k = "d"
    /\ \E i \in DOMAIN BaseContent :
          BaseContent[i].required /\ StructName(BaseContent[i]) \notin DOMAIN d.v

C6_SuccessReturnsTuple ==
    \A p \in Procs :
        pc[p] = "done" =>
           /\ (loc[p].orig.k = "d"
               /\ ApplyDict(schema(BaseContent), Stripped(loc[p].orig)).errs = {})
              => res[p].status = "returned"
           /\ res[p].status = "returned" =>
                /\ res[p].doc.k = "d"
                /\ "_metadata" \in DOMAIN res[p].doc.v
                /\ res[p].doc.v["_metadata"] = Meta(loc[p].id)
                /\ Stripped(res[p].doc) = Stripped(loc[p].orig)
                /\ loc[p].id \in DOMAIN reldata
                /\ loc[p].id \in DOMAIN files
                /\ res[p].rel = reldata[loc[p].id]
                /\ res[p].fl = files[loc[p].id]
                /\ res[p].warnings = <<>>

C6_Witness ==
    /\ pc["t1"] = "done"
    /\ res["t1"].status = "returned"
    /\ "_metadata" \in DOMAIN loc["t1"].orig.v
    /\ loc["t1"].orig.v["_metadata"] # Meta(loc["t1"].id)
    /\ res["t1"].fl # <<>>
    /\ DOMAIN res["t1"].rel # {}

\* What validate(d, meta of i) does when no other call runs: its outcome and
\* the memory areas of i it leaves.
Alone(d, i) ==
    IF d.k = "n"
    THEN [res |-> Raised("TypeError", "strip", {}), fl |-> << <<>> >>, rel |-> <<EmptyMap>>]
    ELSE LET r == ApplyDict(schema(BaseContent), Stripped(d))
         IN IF r.errs = {}
            THEN [res |-> Returned(D(Put(r.out.v, "_metadata", Meta(i))), r.rel, r.fl),
                  fl |-> <<r.fl>>, rel |-> <<r.rel>>]
            ELSE [res |-> Raised("DocumentValidationError", "apply", r.errs),
                  fl |-> <<>>, rel |-> <<>>]

\* C10: under any interleaving of validate calls whose document ids are
\* pairwise distinct, each call ends as it would alone, with the memory areas
\* of its id as it would leave them alone, and no step of a call (a failing
\* one's rollback included) changes the memory areas of another id.
C10_DistinctIdsIsolated ==
    [][\A p \in Procs :
          pc'[p] # pc[p] =>
             /\ \A i \in Ids \ {loc[p].id, loc'[p].id} :
                   /\ Entry(files, i)' = Entry(files, i)
                   /\ Entry(reldata, i)' = Entry(reldata, i)
             /\ pc'[p] = "done" =>
                   /\ res'[p] = Alone(loc'[p].orig, loc'[p].id).res
                   /\ Entry(files', loc'[p].id) = Alone(loc'[p].orig, loc'[p].id).fl
                   /\ Entry(reldata', loc'[p].id) = Alone(loc'[p].orig, loc'[p].id).rel]_vars

\* one call has failed and rolled back while the other succeeded
C10_Witness ==
    /\ pc["t1"] = "done"
    /\ res["t1"].status = "raised"
    /\ res["t1"].kind = "DocumentValidationError"
    /\ pc["t2"] = "done"
    /\ res["t2"].status = "returned"
    /\ loc["t2"].id \in DOMAIN files

\* --------------------------------------------- claims: the generated types

\* C3: constructing a generated document type from keyword arguments that
\* lack a name of the required-name set fails with the missing-required
\* error before any slot of the new instance is assigned: no setter has run.
C3_MissingRequiredBeforeAnySlot ==
    (last.op = "init" /\ last.missing)
    => /\ last.err = "MissingRequiredStructure"
       /\ last.nset = 0
       /\ last.pre = EmptyMap
       /\ ~inst.live

\* title and another name were given, the required group author was not
C3_Witness ==
    /\ last.op = "init"
    /\ last.gen = "struct"
    /\ last.missing
    /\ last.unknown # {}
    /\ last.err = "MissingRequiredStructure"

\* C4: constructing a generated document type with a keyword name outside
\* the legal child-name set fails, with the unknown-structure error once the
\* required names are given and the legal arguments are acceptable; no such
\* name is ever accepted, the private slot names included.
C4_UnknownNameRejected ==
    (last.op = "init" /\ last.unknown # {})
    => /\ last.err # ""
       /\ (~last.missing /\ last.legalok) => last.err = "UnknownStructure"

\* A value of the wrong shape for the Group s.
WrongShape(s, v) ==
    IF s.multivalued
    THEN \/ v.k \notin {"l", "ml"}
         \/ \E i \in DOMAIN v.v : ~(v.v[i].k = "i" /\ v.v[i].t = s.name)
    ELSE ~(v.k = "i" /\ v.t = s.name)

\* C7: assigning a wrongly shaped value to a Group accessor (single-valued:
\* not an instance of the group's type; multivalued: not a list, or a list
\* with an element that is not an instance) fails with the type-mismatch
\* error and leaves the slot and every sibling slot as they were.
C7_WrongShapeLeavesSlots ==
    (/\ last.op = "set"
     /\ StructOf(BaseContent, last.name).kind = "group"
     /\ WrongShape(StructOf(BaseContent, last.name), last.arg))
    => /\ last.err = "TypeMismatch"
       /\ inst.slots = last.pre

\* a plain dictionary assigned to the single-valued group author
C7_Witness ==
    /\ last.op = "set"
    /\ last.name = "author"
    /\ last.arg = D(EmptyMap)
    /\ last.err = "TypeMismatch"
    /\ "_author" \in DOMAIN inst.slots
    /\ "_tags" \in DOMAIN inst.slots

\* The elements of the list a multivalued Group slot holds.
StoredElems(n) ==
    IF PrivateName(n) \notin DOMAIN inst.slots THEN <<>>
    ELSE LET v == Deref(inst.slots[PrivateName(n)])
         IN IF IsList(v) THEN v.v ELSE <<>>

\* C8: in every reachable state, whatever assignments and list mutations
\* came before, every element of the value stored in a multivalued Group
\* slot is an instance of that Group's generated type.
C8_StoredElementsAreInstances ==
    inst.live =>
        \A i \in DOMAIN StoredElems("tags") :
            IsInstance(StoredElems("tags")[i], Reg, "tags")

C5_RoundTrip ==
    conv.done => conv.err = "" /\ conv.out = conv.doc

\* The round trip over a base whose structure names are all distinct.
RoundTripDistinctNames ==
    (conv.done /\ conv.base = "scenario") => conv.err = "" /\ conv.out = conv.doc

\* ---------------------------------------------- claims: content of a Base

\* A content the Base class g must refuse: not of the sequence type the class
\* expects, empty, or holding an element that is no Field and no Group.
Malformed(g, c) ==
    \/ c.k # (IF g = "old" THEN "l" ELSE "c")
    \/ Len(c.v) = 0
    \/ \E i \in DOMAIN c.v : c.v[i].k # "st"

\* C11: building a Base, or assigning its content, with a malformed content
\* always fails, so every Base built holds a non-empty content made of
\* Fields and Groups only; a failed assignment leaves the content held before.
C11_MalformedContentRefused ==
    /\ \A g \in BaseGens : bases.obj[g].built => ~Malformed(g, bases.obj[g].content)
    /\ (bases.op # "" /\ Malformed(bases.gen, bases.arg))
       => bases.err # "" /\ bases.obj[bases.gen] = bases.pre

\* ------------------------------------------------ claims: Field accessors

\* What the datatype validator of the Field s accepts: a scalar of the
\* datatype, or for a multivalued Field a list of them.
Acceptable(s, v) ==
    IF s.multivalued
    THEN v.k = "l" /\ \A i \in DOMAIN v.v : DatatypeOk(v.v[i])
    ELSE DatatypeOk(v)

\* The normalized form of a value the validator accepts.
Normalized(s, v) ==
    IF s.multivalued THEN L([i \in DOMAIN v.v |-> validator(v.v[i])])
    ELSE validator(v)

\* the accessor's get returns the normalized form of v
Gets(n, v) ==
    getter(StructOf(FieldsContent, n), inst.slots)
        = [err |-> "", val |-> Normalized(StructOf(FieldsContent, n), v)]

\* C12: every assignment to a Field accessor, at construction and later,
\* runs the datatype validator (on the scalar, or on each element of the list
\* a multivalued Field requires); after a successful assignment of v get
\* returns the normalized value, never the wrapper, and a refused assignment
\* raises and leaves the slot as it was.
C12_FieldAssignmentValidates ==
    /\ last.op = "fset" =>
          IF Acceptable(StructOf(FieldsContent, last.name), last.arg)
          THEN last.err = "" /\ Gets(last.name, last.arg)
          ELSE last.err # "" /\ inst.slots = last.pre
    /\ (last.op = "finit" /\ ~last.missing) =>
          IF \A n \in DOMAIN last.arg.v :
                Acceptable(StructOf(FieldsContent, n), last.arg.v[n])
          THEN /\ last.err = ""
               /\ inst.live
               /\ \A n \in DOMAIN last.arg.v : Gets(n, last.arg.v[n])
          ELSE last.err # "" /\ ~inst.live

\* a list with an element to normalize replaced the list of keywords
C12_Witness ==
    /\ last.op = "fset"
    /\ last.name = "keywords"
    /\ last.arg = L(<<S(3), S(1)>>)
    /\ last.err = ""
    /\ "_keywords" \in DOMAIN last.pre
    /\ inst.slots["_keywords"] = W(L(<<S(1), S(1)>>))

\* ------------------------------------- claims: the validator, call after call

\* C13: after any sequence of validate calls that do not overlap, __files__
\* and __reldata__ have the same keys, and a document id is a key exactly
\* when the latest validation of that id succeeded; each validation starts
\* from an empty file list and an empty relational map, so its result shows
\* nothing an earlier validation of the id left.
C13_KeysTrackLatestSuccess ==
    pc["t1"] \in {"idle", "done"} =>
        /\ DOMAIN files = DOMAIN reldata
        /\ pc["t1"] = "done" =>
              /\ loc["t1"].id \in DOMAIN files <=> res["t1"].status = "returned"
              /\ res["t1"].status = "returned" =>
                    /\ <<res["t1"].fl>> = Alone(loc["t1"].orig, loc["t1"].id).fl
                    /\ <<res["t1"].rel>> = Alone(loc["t1"].orig, loc["t1"].id).rel

====
